---------------------------- MODULE Spec2Model ----------------------------
(***************************************************************************)
(* Model of the bedzones demo: the BedDemo shell (src/src/components/      *)
(* BedDemo.tsx) and the BedDualZone widget (listed in src/README.md).      *)
(*                                                                         *)
(* Numbers.  The code computes with JavaScript doubles.  Every stored      *)
(* temperature the demo can produce is a multiple of 1/50 degree           *)
(* Fahrenheit (an integer, or c * 9 / 5 + 32 with c a multiple of 0.1),    *)
(* so a stored temperature is modelled as an integer count of 1/50 F:      *)
(* 72 F is 3600.  A value shown by the demo controls (toUnit) has at most  *)
(* one decimal and is modelled in tenths of the active unit: 43.5 C is     *)
(* 435, 110 F is 1100.  A value shown by the widget (formatTemp) is a      *)
(* whole number of degrees.  Math.round(x) is floor(x + 1/2).              *)
(*                                                                         *)
(* An optional field (targetTemp?, schedule?, nextStart?, editingSide      *)
(* null) is a set with no element when absent and one element when         *)
(* present, so an absent number is never confused with 0.                  *)
(***************************************************************************)
EXTENDS Integers, FiniteSets, Sequences, TLC

\* ------------------------------------------------------------------ bounds

\* Largest number of changeTemp clicks explored in one behaviour of Spec.
MaxPresses == 1

\* Largest number of changeTemp clicks on the right side explored in one
\* behaviour of TempSpec, where the clicks on the left side are not limited, so
\* that the left side's target explores its whole range in both units.
MaxRightPresses == 2

\* Texts a user types into the name fields and times picked in the time field.
NameInputs == {"Ann"}
TimeInputs == {"", "07:00"}

\* ------------------------------------------------------------------- types

Side == {"left", "right"}
Mode == {"off", "cool", "heat"}
Unit == {"F", "C"}
Page == {"home", "settings", "schedule"}

Other(s) == IF s = "left" THEN "right" ELSE "left"

\* x ?? d on an optional value
OrElse(opt, d) == IF opt = {} THEN d ELSE CHOOSE v \in opt : TRUE

\* Math.round(n / d) for d > 0: the nearest integer, a tie going up
MathRound(n, d) == (2 * n + d) \div (2 * d)

Min(a, b) == IF a < b THEN a ELSE b
Max(a, b) == IF a > b THEN a ELSE b

\* ------------------------------------------------------------------- state

VARIABLES zones, editing, unit, page, sideNames, presses

vars == <<zones, editing, unit, page, sideNames, presses>>

\* ------------------------------------------------- BedDemo: unit conversion

\* fToC(f): f in 1/50 F, the result in 1/450 C
fToC(f) == (f - 1600) * 5

\* cToF(c): c in tenths of a degree C, the result in 1/50 F
cToF(c) == 9 * c + 1600

\* toUnit(t): stored 1/50 F to the shown value, in tenths of unit u
toUnit(u, t) == IF u = "C" THEN MathRound(fToC(t) * 10, 450) ELSE MathRound(t, 50) * 10

\* fromUnit(t): a value in tenths of unit u to stored 1/50 F
fromUnit(u, t) == IF u = "C" THEN cToF(t) ELSE 5 * t

\* tempCfg, in tenths of the unit
tempCfg(u) ==
    IF u = "C" THEN [min |-> 130, max |-> 435, mid |-> 280, step |-> 5]
               ELSE [min |-> 550, max |-> 1100, mid |-> 820, step |-> 10]

\* -------------------------------------------------- BedDemo: zone updaters

\* (mutant: the updated zone is written to both sides)
updateZoneBoth(zs, side, newZone) == [s \in Side |-> newZone]

\* setZones((z) => ({ ...z, [side]: updater(z[side]) })), the updater applied
updateZone(zs, side, newZone) == [zs EXCEPT ![side] = newZone]

\* (mutant: the mode is chosen by comparing the value in the display unit, not
\* its Fahrenheit conversion, with the Fahrenheit currentTemp)
changeTempZoneUnitMix(z, u, delta) ==
    LET currentTarget == toUnit(u, OrElse(z.targetTemp, fromUnit(u, tempCfg(u).mid)))
        next == Min(tempCfg(u).max, Max(tempCfg(u).min, currentTarget + delta))
        nextF == fromUnit(u, next)
        mode == IF z.mode = "off" THEN z.mode
                ELSE IF 5 * next > z.currentTemp THEN "heat"
                ELSE IF 5 * next < z.currentTemp THEN "cool"
                ELSE z.mode
    IN [z EXCEPT !.targetTemp = {nextF}, !.mode = mode]

\* the updater of changeTemp(side, delta) applied to zone z under unit u
changeTempZone(z, u, delta) ==
    LET currentTarget == toUnit(u, OrElse(z.targetTemp, fromUnit(u, tempCfg(u).mid)))
        next == Min(tempCfg(u).max, Max(tempCfg(u).min, currentTarget + delta))
        nextF == fromUnit(u, next)
        mode == IF z.mode = "off" THEN z.mode
                ELSE IF nextF > z.currentTemp THEN "heat"
                ELSE IF nextF < z.currentTemp THEN "cool"
                ELSE z.mode
    IN [z EXCEPT !.targetTemp = {nextF}, !.mode = mode]

\* (mutant: switching off also drops the target)
togglePowerZoneDropTarget(z) ==
    IF z.mode = "off"
    THEN LET target == OrElse(z.targetTemp, z.currentTemp)
             mode == IF target > z.currentTemp THEN "heat"
                     ELSE IF target < z.currentTemp THEN "cool"
                     ELSE "heat"
         IN [z EXCEPT !.mode = mode, !.targetTemp = {target}]
    ELSE [z EXCEPT !.mode = "off", !.targetTemp = {}]

\* (mutant: an absent target is read as 0 instead of the current temperature)
togglePowerZoneZero(z) ==
    IF z.mode = "off"
    THEN LET target == OrElse(z.targetTemp, 0)
             mode == IF target > z.currentTemp THEN "heat"
                     ELSE IF target < z.currentTemp THEN "cool"
                     ELSE "heat"
         IN [z EXCEPT !.mode = mode, !.targetTemp = {target}]
    ELSE [z EXCEPT !.mode = "off"]

\* the updater of togglePower(side) applied to zone z
togglePowerZone(z) ==
    IF z.mode = "off"
    THEN LET target == OrElse(z.targetTemp, z.currentTemp)
             mode == IF target > z.currentTemp THEN "heat"
                     ELSE IF target < z.currentTemp THEN "cool"
                     ELSE "heat"
         IN [z EXCEPT !.mode = mode, !.targetTemp = {target}]
    ELSE [z EXCEPT !.mode = "off"]

\* (mutant: the schedule is replaced by { running }, losing nextStart)
toggleScheduleZoneDropStart(z, running) ==
    [z EXCEPT !.schedule = {[running |-> running, nextStart |-> {}]}]

\* the updater of toggleSchedule(side, running): { ...z.schedule, running }
toggleScheduleZone(z, running) ==
    [z EXCEPT !.schedule =
        {[running |-> running,
          nextStart |-> IF z.schedule = {} THEN {}
                        ELSE (CHOOSE s \in z.schedule : TRUE).nextStart]}]

\* the updater of setScheduleStart(side, nextStart)
setScheduleStartZone(z, nextStart) ==
    [z EXCEPT !.schedule =
        {[running |-> IF z.schedule = {} THEN FALSE
                      ELSE (CHOOSE s \in z.schedule : TRUE).running,
          nextStart |-> {nextStart}]}]

\* ------------------------------------------------------------ BedDemo: Init

Init ==
    /\ zones = [s \in Side |->
                  IF s = "left"
                  THEN [mode |-> "cool", currentTemp |-> 3600, targetTemp |-> {3400},
                        schedule |-> {[running |-> FALSE, nextStart |-> {}]}]
                  ELSE [mode |-> "off", currentTemp |-> 3500, targetTemp |-> {},
                        schedule |-> {[running |-> FALSE, nextStart |-> {}]}]]
    /\ editing = {"left"}
    /\ unit = "F"
    /\ page = "home"
    /\ sideNames = [left |-> "Left", right |-> "Right"]
    /\ presses = 0

\* the side the demo is editing (the demo's editing state is never null)
editingSideOf == CHOOSE s \in editing : TRUE

\* --------------------------------------------------------- BedDemo: actions

\* (mutant: a click flips the editing side instead of setting it)
OnSideClickFlip(s) ==
    /\ page \in {"home", "schedule"}
    /\ editing' = {Other(editingSideOf)}
    /\ UNCHANGED <<zones, unit, page, sideNames, presses>>

\* BedDualZone onSideClick={(s) => setEditing(s)}, on the home and schedule pages
OnSideClick(s) ==
    /\ page \in {"home", "schedule"}
    /\ editing' = {s}
    /\ UNCHANGED <<zones, unit, page, sideNames, presses>>

\* Tabs onChange={(_, v) => v && setEditing(v)}
TabsOnChange(v) ==
    /\ page \in {"home", "schedule"}
    /\ editing' = {v}
    /\ UNCHANGED <<zones, unit, page, sideNames, presses>>

\* power button: togglePower(editing)
TogglePower ==
    /\ page = "home"
    /\ zones' = updateZone(zones, editingSideOf, togglePowerZone(zones[editingSideOf]))
    /\ UNCHANGED <<editing, unit, page, sideNames, presses>>

\* minus and plus buttons: changeTemp(editing, -tempCfg.step) and (editing, tempCfg.step)
\* (free: the sides whose clicks are not counted; budget: the most counted clicks)
ChangeTemp(sign, free, budget) ==
    /\ page = "home"
    /\ editingSideOf \in free \/ presses < budget
    /\ zones' = updateZone(zones, editingSideOf,
                   changeTempZone(zones[editingSideOf], unit, sign * tempCfg(unit).step))
    /\ presses' = IF editingSideOf \in free THEN presses ELSE presses + 1
    /\ UNCHANGED <<editing, unit, page, sideNames>>

\* the switch shown on the schedule page: checked={!!zones[editing].schedule?.running}
scheduleSwitchChecked ==
    /\ zones[editingSideOf].schedule # {}
    /\ (CHOOSE s \in zones[editingSideOf].schedule : TRUE).running

\* schedule switch: toggleSchedule(editing, e.target.checked)
ToggleSchedule ==
    /\ page = "schedule"
    /\ zones' = updateZone(zones, editingSideOf,
                   toggleScheduleZone(zones[editingSideOf], ~scheduleSwitchChecked))
    /\ UNCHANGED <<editing, unit, page, sideNames, presses>>

\* time field: setScheduleStart(editing, e.target.value)
SetScheduleStart(nextStart) ==
    /\ page = "schedule"
    /\ zones' = updateZone(zones, editingSideOf,
                   setScheduleStartZone(zones[editingSideOf], nextStart))
    /\ UNCHANGED <<editing, unit, page, sideNames, presses>>

\* (mutant: switching the unit also converts the stored targets to the new unit)
SetUnitConverting ==
    /\ page = "settings"
    /\ unit' = IF ~(unit = "C") THEN "C" ELSE "F"
    /\ zones' = [s \in Side |->
                   [zones[s] EXCEPT !.targetTemp =
                       {toUnit(unit', t) * 5 : t \in zones[s].targetTemp}]]
    /\ UNCHANGED <<editing, page, sideNames, presses>>

\* settings switch: setUnit(e.target.checked ? 'C' : 'F'), checked={unit === 'C'}
SetUnit ==
    /\ page = "settings"
    /\ unit' = IF ~(unit = "C") THEN "C" ELSE "F"
    /\ UNCHANGED <<zones, editing, page, sideNames, presses>>

\* name fields: setSideNames((n) => ({ ...n, left: e.target.value })), and right
SetSideName(s, name) ==
    /\ page = "settings"
    /\ sideNames' = [sideNames EXCEPT ![s] = name]
    /\ UNCHANGED <<zones, editing, unit, page, presses>>

\* BottomNavigation onChange={(_, v) => setPage(v)}
SetPage(v) ==
    /\ page' = v
    /\ UNCHANGED <<zones, editing, unit, sideNames, presses>>

Next ==
    \/ \E s \in Side : OnSideClick(s)
    \/ \E v \in Side : TabsOnChange(v)
    \/ TogglePower
    \/ \E sign \in {-1, 1} : ChangeTemp(sign, {}, MaxPresses)
    \/ ToggleSchedule
    \/ \E t \in TimeInputs : SetScheduleStart(t)
    \/ SetUnit
    \/ \E s \in Side, n \in NameInputs : SetSideName(s, n)
    \/ \E v \in Page : SetPage(v)

Spec == Init /\ [][Next]_vars

\* ------------------------------------------------------ BedDualZone widget

\* Stored values the demo can produce whose Celsius value is exactly x.5 but whose
\* double is not: for 56.3, 67.1 and 76.1 F (13.5, 19.5 and 24.5 C) the double
\* expression ((t - 32) * 5) / 9 evaluates just below x.5 and Math.round goes
\* down; for every other such value the demo stores it evaluates to x.5 or just
\* above and Math.round goes up.
TieBelow == {2815, 3355, 3805}

\* (mutant: the value is cut instead of rounded)
formatTempFloor(u, t) == IF u = "C" THEN ((t - 1600) * 5) \div 450 ELSE t \div 50

\* formatTemp(t): stored 1/50 F to the whole number of degrees shown in unit u
formatTemp(u, t) ==
    IF u = "C"
    THEN IF t \in TieBelow THEN MathRound((t - 1600) * 5, 450) - 1
                           ELSE MathRound((t - 1600) * 5, 450)
    ELSE MathRound(t, 50)

\* unitLabel: the degree sign followed by the unit
unitLabel(u) == <<"deg", u>>

\* isEditing = editingSideProp === key
isEditing(editingSideProp, key) == editingSideProp = {key}

\* ariaLabel: name, " side: ", mode and the ", editing" suffix
ariaLabel(name, z, editingSideProp, key) ==
    <<name, " side: ", z.mode, IF isEditing(editingSideProp, key) THEN ", editing" ELSE "">>

\* (mutant: nextStart is tested against undefined, so "" counts as a start time)
scheduleLabelDefined(z) ==
    IF z.schedule = {} THEN {}
    ELSE LET sch == CHOOSE s \in z.schedule : TRUE
         IN IF sch.running THEN {<<"Schedule running">>}
            ELSE IF sch.nextStart # {}
                 THEN {<<"Starts at", CHOOSE t \in sch.nextStart : TRUE>>}
                 ELSE {}

\* scheduleLabel of a zone ("" is falsy, as is an absent nextStart)
scheduleLabel(z) ==
    IF z.schedule = {} THEN {}
    ELSE LET sch == CHOOSE s \in z.schedule : TRUE
         IN IF sch.running THEN {<<"Schedule running">>}
            ELSE IF sch.nextStart # {} /\ sch.nextStart # {""}
                 THEN {<<"Starts at", CHOOSE t \in sch.nextStart : TRUE>>}
                 ELSE {}

\* (mutant: the "editingSide &&" test is dropped)
opacityNoNullTest(editingSideProp, key) ==
    IF ~isEditing(editingSideProp, key) THEN 60 ELSE 100

\* opacity: editingSide && !isEditing ? 0.6 : 1, in hundredths
opacity(editingSideProp, key) ==
    IF editingSideProp # {} /\ ~isEditing(editingSideProp, key) THEN 60 ELSE 100

\* the target line under the temperature, when it is rendered
targetLine(z, u) ==
    IF z.mode # "off" /\ z.targetTemp # {}
    THEN LET t == CHOOSE v \in z.targetTemp : TRUE
         IN {[text |-> IF z.currentTemp = t THEN "Maintaining"
                       ELSE IF z.mode = "cool" THEN "Cooling to" ELSE "Heating to",
              temp |-> formatTemp(u, t),
              unitLabel |-> unitLabel(u)]}
    ELSE {}

\* what zones.map renders for one zone
zoneButton(key, z, name, editingSideProp, u) ==
    [ariaLabel |-> ariaLabel(name, z, editingSideProp, key),
     ariaPressed |-> isEditing(editingSideProp, key),
     opacity |-> opacity(editingSideProp, key),
     name |-> name,
     temp |-> formatTemp(u, z.currentTemp),
     unitLabel |-> unitLabel(u),
     targetLine |-> targetLine(z, u),
     scheduleLabel |-> scheduleLabel(z)]

\* BedDualZone({ left, right, editingSide, sideNames, unit }): the two buttons
BedDualZone(left, right, editingSideProp, names, u) ==
    [key \in Side |->
        zoneButton(key,
                   IF key = "left" THEN left ELSE right,
                   IF key = "left" THEN OrElse(names.left, "Left")
                                   ELSE OrElse(names.right, "Right"),
                   editingSideProp, u)]

\* ------------------------------------------------------- BedDemo: rendering

\* the widget as BedDemo renders it (home and schedule pages only)
widgetView ==
    IF page = "settings" THEN {}
    ELSE {BedDualZone(zones.left, zones.right, editing, 
                      [left |-> {sideNames.left}, right |-> {sideNames.right}], unit)}

\* the target shown between the minus and plus buttons (home page), in tenths
controlsTarget ==
    LET z == zones[editingSideOf]
    IN toUnit(unit, OrElse(z.targetTemp, fromUnit(unit, tempCfg(unit).mid)))

\* ------------------------------------------- temperature-only behaviours

TempNext ==
    \/ \E s \in Side : OnSideClick(s)
    \/ \E v \in Side : TabsOnChange(v)
    \/ TogglePower
    \/ \E sign \in {-1, 1} : ChangeTemp(sign, {"left"}, MaxRightPresses)
    \/ SetUnit
    \/ \E v \in Page : SetPage(v)

TempSpec == Init /\ [][TempNext]_vars

\* ------------------------------------- the widget under arbitrary props

\* The widget is mounted with the zone states its parent passes and the defaults
\* of its optional props (editingSide = null, unit = 'F'); the parent then
\* re-renders it with other props.
\* temperatures, targets and schedules a parent passes to the widget
PropTargets == {{}, {0}, {3425}, {3600}}
PropSchedules ==
    {{}} \cup {{[running |-> r, nextStart |-> n]} :
                  r \in BOOLEAN, n \in {{}, {""}, {"07:00"}}}
PropZones ==
    [mode : Mode, currentTemp : {3600}, targetTemp : PropTargets, schedule : PropSchedules]

WInit ==
    /\ zones \in [Side -> PropZones]
    /\ editing = {}
    /\ unit = "F"
    /\ page = "home"
    /\ sideNames = [left |-> "Left", right |-> "Right"]
    /\ presses = 0

\* the parent re-renders the widget with one prop of one zone changed
WSetZone(s) ==
    /\ \E z \in PropZones :
          /\ \/ z = [zones[s] EXCEPT !.mode = z.mode]
             \/ z = [zones[s] EXCEPT !.targetTemp = z.targetTemp]
             \/ z = [zones[s] EXCEPT !.schedule = z.schedule]
          /\ zones' = [zones EXCEPT ![s] = z]
    /\ UNCHANGED <<editing, unit, page, sideNames, presses>>

\* the parent passes another editingSide (null included) or another unit
WSetEditing(e) ==
    /\ editing' = e
    /\ UNCHANGED <<zones, unit, page, sideNames, presses>>

WSetUnitProp(u) ==
    /\ unit' = u
    /\ UNCHANGED <<zones, editing, page, sideNames, presses>>

WNext ==
    \/ \E s \in Side : WSetZone(s)
    \/ \E e \in {{}, {"left"}, {"right"}} : WSetEditing(e)
    \/ \E u \in Unit : WSetUnitProp(u)

WidgetSpec == WInit /\ [][WNext]_vars

\* ================================================================== claims

\* the widget's two buttons in the current state (the widget is on the page)
button(s) == (CHOOSE v \in widgetView : TRUE)[s]

\* C1: selecting a side makes it the editing side.  On the home and the schedule
\* page a click on zone s and a choice of tab s are both possible, and each such
\* step ends with editing = s, whatever editing was before; a click on the side
\* already being edited leaves editing as it was.
C1_SelectSetsEditing ==
    /\ [](page \in {"home", "schedule"} =>
            \A s \in Side : ENABLED OnSideClick(s) /\ ENABLED TabsOnChange(s))
    /\ [][\A s \in Side :
            (OnSideClick(s) \/ TabsOnChange(s)) =>
                /\ editing' = {s}
                /\ (editing = {s} => editing' = editing)]_vars

\* C1 witness: the right side was selected on the schedule page while the left
\* zone still is as the left side's controls left it.
C1_Witness ==
    /\ page = "schedule"
    /\ editing = {"right"}
    /\ zones["left"].mode = "off"

\* C2: the editing selection is left, right or none; a zone is highlighted
\* (aria-pressed, ", editing" in its label) exactly when its key is the editing
\* side, so at most one zone is; with an editing side every other zone is dimmed
\* to 0.6 and the edited one is not; with none no zone is highlighted or dimmed.
C2_OneZoneEdited ==
    /\ editing \in {{}, {"left"}, {"right"}}
    /\ \A k \in Side :
          /\ button(k).ariaPressed <=> (editing = {k})
          /\ (button(k).ariaLabel[4] = ", editing") <=> (editing = {k})
          /\ button(k).ariaLabel[4] \in {"", ", editing"}
          /\ button(k).opacity = IF editing # {} /\ editing # {k} THEN 60 ELSE 100
    /\ Cardinality({k \in Side : button(k).ariaPressed}) <= 1
    /\ editing = {} => \A k \in Side : ~button(k).ariaPressed /\ button(k).opacity = 100

\* C2 witness: the right zone is being edited: it is highlighted and the left
\* zone is dimmed.
C2_Witness ==
    /\ editing = {"right"}
    /\ button("right").ariaPressed /\ button("right").opacity = 100
    /\ ~button("left").ariaPressed /\ button("left").opacity = 60

\* C3: single-side editing.  Every step that changes a zone (togglePower,
\* changeTemp, toggleSchedule, setScheduleStart) changes the zone of the current
\* editing side and leaves the other zone's whole state, and the editing side,
\* unchanged.
C3_OtherZoneUntouched ==
    [][/\ zones' # zones =>
            /\ zones'[Other(editingSideOf)] = zones[Other(editingSideOf)]
            /\ zones'[editingSideOf] # zones[editingSideOf]
            /\ editing' = editing
       /\ (\/ TogglePower
           \/ \E sign \in {-1, 1} : ChangeTemp(sign, {}, MaxPresses)
           \/ ToggleSchedule
           \/ \E t \in TimeInputs : SetScheduleStart(t)) =>
            zones'[Other(editingSideOf)] = zones[Other(editingSideOf)]]_vars

\* C3 witness: the right zone was powered on, given a target and a schedule
\* while the left zone still is in its initial state.
C3_Witness ==
    /\ zones["right"].mode = "heat"
    /\ zones["right"].targetTemp = {3550}
    /\ zones["right"].schedule = {[running |-> TRUE, nextStart |-> {"07:00"}]}
    /\ zones["left"] = [mode |-> "cool", currentTemp |-> 3600, targetTemp |-> {3400},
                        schedule |-> {[running |-> FALSE, nextStart |-> {}]}]

\* zone states with an absent, a zero and an ordinary target, in every mode
C4Zones ==
    [mode : Mode, currentTemp : {3600}, targetTemp : {{}, {0}, {3400}}, schedule : {{}}]

\* C4: an absent targetTemp means "not applicable", never zero.  For every zone
\* state the widget shows a target line exactly when mode is not off and
\* targetTemp is defined (a defined 0 is shown as a value); the demo controls show
\* the unit's mid value for an absent target; and a step that gives a zone its
\* first target stores the current temperature (togglePower) or mid +/- step
\* (changeTemp), never a value computed from 0.
C4_AbsentTargetNotZero ==
    /\ [](/\ \A z \in C4Zones, u \in Unit :
                /\ (targetLine(z, u) # {}) <=> (z.mode # "off" /\ z.targetTemp # {})
                /\ targetLine(z, u) # {} =>
                      (CHOOSE l \in targetLine(z, u) : TRUE).temp
                          = formatTemp(u, CHOOSE t \in z.targetTemp : TRUE)
          /\ page # "settings" =>
                \A s \in Side : (button(s).targetLine # {}) <=>
                                   (zones[s].mode # "off" /\ zones[s].targetTemp # {})
          /\ (page = "home" /\ zones[editingSideOf].targetTemp = {}) =>
                /\ controlsTarget = tempCfg(unit).mid
                /\ controlsTarget # 0)
    /\ [][\A s \in Side :
            (zones[s].targetTemp = {} /\ zones'[s].targetTemp # {}) =>
                \/ /\ zones'[s].targetTemp = {zones[s].currentTemp}
                   /\ zones'[s].mode = "heat"
                \/ /\ zones'[s].targetTemp \in
                         {{fromUnit(unit, tempCfg(unit).mid + d * tempCfg(unit).step)} :
                             d \in {-1, 1}}
                   /\ zones'[s].mode = "off"]_vars

\* C4 witness: the right zone, whose target was absent, was powered on without a
\* temperature click and now holds its current temperature as target.
C4_Witness ==
    /\ presses = 0
    /\ zones["right"].mode = "heat"
    /\ zones["right"].targetTemp = {3500}
    /\ page = "home"
    /\ button("right").targetLine # {}

\* v is what Math.round shows for the stored temperature t in the active unit.
\* Fahrenheit: the nearest whole number, a half going up.  Celsius: a nearest
\* whole number of (t - 32) * 5 / 9 (at a stored value whose exact Celsius value
\* is x.5 the double is a hair off the tie, and either neighbour is its rounding).
Shown(v, t) ==
    IF unit = "C" THEN 90 * v - 45 <= t - 1600 /\ t - 1600 <= 90 * v + 45
                  ELSE 50 * v <= t + 25 /\ t + 25 < 50 * v + 50

\* C5: temperatures are stored in Fahrenheit and converted for display only: the
\* widget shows round(t) under unit F and round((t - 32) * 5 / 9) under unit C,
\* for currentTemp and for targetTemp, with the unit label of the unit.
C5_DisplayConversion ==
    page # "settings" =>
        \A s \in Side :
            /\ Shown(button(s).temp, zones[s].currentTemp)
            /\ button(s).unitLabel = <<"deg", unit>>
            /\ \A l \in button(s).targetLine :
                  /\ Shown(l.temp, CHOOSE t \in zones[s].targetTemp : TRUE)
                  /\ l.unitLabel = <<"deg", unit>>

\* C5 witness: the left zone's target was set to 20.5 C (stored as 68.9 F) and is
\* shown under unit C as 21, the current 72 F as 22.
C5_Witness ==
    /\ unit = "C"
    /\ page = "home"
    /\ zones["left"].targetTemp = {3445}
    /\ \E l \in button("left").targetLine : l.temp = 21
    /\ button("left").temp = 22

\* C6: the schedule indicator.  For every zone state the widget shows "Schedule
\* running" exactly when schedule.running is true; otherwise "Starts at
\* <nextStart>" exactly when nextStart is a non-empty string; and no indicator
\* when the schedule is absent, or not running with no or an empty nextStart.
C6_ScheduleIndicator ==
    \A s \in Side :
        LET sched == zones[s].schedule
            running == \E sc \in sched : sc.running
            starts == {t \in UNION {sc.nextStart : sc \in sched} : t # ""}
            label == button(s).scheduleLabel
        IN /\ (label = {<<"Schedule running">>}) <=> running
           /\ ~running => label = {<<"Starts at", t>> : t \in starts}
           /\ (sched = {} \/ (~running /\ starts = {})) => label = {}

\* C6 witness: the widget was re-rendered with units C; the left zone's schedule
\* is not running and its nextStart is the empty string, so it shows no
\* indicator, and the right zone shows its start time.
C6_Witness ==
    /\ unit = "C"
    /\ zones["left"].schedule = {[running |-> FALSE, nextStart |-> {""}]}
    /\ button("left").scheduleLabel = {}
    /\ button("right").scheduleLabel = {<<"Starts at", "07:00">>}

\* C7: schedules are display-only.  toggleSchedule changes only schedule.running
\* of the editing zone and keeps nextStart; setScheduleStart changes only
\* schedule.nextStart and keeps running (false when there was no schedule); and
\* no step taken on the schedule page changes any zone's mode, currentTemp or
\* targetTemp.
C7_ScheduleDisplayOnly ==
    /\ [](\A z \in C4Zones, t \in TimeInputs, r \in BOOLEAN :
            /\ setScheduleStartZone(z, t) =
                  [z EXCEPT !.schedule = {[running |-> FALSE, nextStart |-> {t}]}]
            /\ toggleScheduleZone(z, r) =
                  [z EXCEPT !.schedule = {[running |-> r, nextStart |-> {}]}])
    /\ [][LET e == editingSideOf
              old == CHOOSE sc \in zones[e].schedule : TRUE
          IN /\ ToggleSchedule =>
                   zones' = [zones EXCEPT ![e].schedule =
                                {[old EXCEPT !.running = ~old.running]}]
             /\ \A t \in TimeInputs : SetScheduleStart(t) =>
                   zones' = [zones EXCEPT ![e].schedule =
                                {[old EXCEPT !.nextStart = {t}]}]
             /\ page = "schedule" =>
                   \A s \in Side : /\ zones'[s].mode = zones[s].mode
                                   /\ zones'[s].currentTemp = zones[s].currentTemp
                                   /\ zones'[s].targetTemp = zones[s].targetTemp]_vars

\* C7 witness: the left zone's schedule got a start time and was then switched
\* on; its mode, current and target temperature are the initial ones.
C7_Witness ==
    /\ page = "schedule"
    /\ zones["left"] = [mode |-> "cool", currentTemp |-> 3600, targetTemp |-> {3400},
                        schedule |-> {[running |-> TRUE, nextStart |-> {"07:00"}]}]

\* C8: navigation and settings do not touch zone state.  page is home, settings
\* or schedule; a step that changes the page, the unit, a side name or the
\* editing side leaves both zones unchanged; moving between the home and the
\* schedule page shows the same widget; and after a unit switch the widget would
\* show, in either unit, what it would have shown before the switch (so F to C
\* and back to F shows the same temperatures).
C8_SettingsKeepZones ==
    /\ [](page \in Page)
    /\ [][/\ (page' # page \/ unit' # unit \/ sideNames' # sideNames
                \/ editing' # editing) => zones' = zones
          /\ (page \in {"home", "schedule"} /\ page' \in {"home", "schedule"}
                /\ page' # page) => widgetView' = widgetView
          /\ unit' # unit =>
                \A u \in Unit :
                    BedDualZone(zones'.left, zones'.right, editing',
                                [left |-> {sideNames'.left}, right |-> {sideNames'.right}], u)
                    = BedDualZone(zones.left, zones.right, editing,
                                [left |-> {sideNames.left}, right |-> {sideNames.right}], u)]_vars

\* C8 witness: after a temperature click the user renamed the left side, switched
\* to unit C, and went to the schedule page and selected the right side there.
C8_Witness ==
    /\ page = "schedule"
    /\ unit = "C"
    /\ sideNames.left = "Ann"
    /\ editing = {"right"}
    /\ zones["left"].targetTemp = {3450}

\* C9: the mode agrees with the direction of the target.  A zone in mode heat has
\* a target that is defined and >= currentTemp, a zone in mode cool one that is
\* defined and <= currentTemp; so the widget never shows "Heating to X" with X
\* below the shown current temperature nor "Cooling to X" with X above it.
C9_ModeMatchesTarget ==
    /\ \A s \in Side :
          /\ zones[s].mode = "heat" =>
                zones[s].targetTemp # {} /\
                \A t \in zones[s].targetTemp : t >= zones[s].currentTemp
          /\ zones[s].mode = "cool" =>
                zones[s].targetTemp # {} /\
                \A t \in zones[s].targetTemp : t <= zones[s].currentTemp
    /\ page # "settings" =>
          \A s \in Side : \A l \in button(s).targetLine :
              /\ l.text = "Heating to" => l.temp >= button(s).temp
              /\ l.text = "Cooling to" => l.temp <= button(s).temp

\* C9 witness: under unit C the left zone's target was raised above its current
\* temperature and the zone heats; the right zone was powered on and lowered, and
\* cools.
C9_Witness ==
    /\ unit = "C"
    /\ page = "home"
    /\ zones["left"].mode = "heat"
    /\ \E t \in zones["left"].targetTemp : t > 3600
    /\ zones["right"].mode = "cool"
    /\ \E l \in button("left").targetLine : l.text = "Heating to"

\* C10: on the home page the target shown in the controls for the editing side
\* lies within the range of the active unit: 55 to 110 under F and 13 to 43.5
\* under C.
C10_ControlsTargetInRange ==
    page = "home" =>
        /\ tempCfg(unit).min <= controlsTarget
        /\ controlsTarget <= tempCfg(unit).max

\* C11: togglePower alternates a zone between off and active and never loses the
\* target.  On a zone that is off it stores as target the existing targetTemp, or
\* currentTemp if there is none, and sets mode to heat when that target is above
\* currentTemp, cool when below and heat when equal; on a zone in mode heat or
\* cool it sets mode to off and keeps targetTemp.  Either way currentTemp, the
\* schedule and the other zone are unchanged, and no other step switches a zone
\* between off and active.
C11_TogglePowerAlternates ==
    [][LET e == editingSideOf
           z == zones[e]
           zn == zones'[e]
           target == IF z.targetTemp = {} THEN z.currentTemp
                     ELSE CHOOSE t \in z.targetTemp : TRUE
       IN /\ TogglePower =>
                /\ z.mode = "off" =>
                      /\ zn.targetTemp = {target}
                      /\ target > z.currentTemp => zn.mode = "heat"
                      /\ target < z.currentTemp => zn.mode = "cool"
                      /\ target = z.currentTemp => zn.mode = "heat"
                /\ z.mode # "off" =>
                      /\ zn.mode = "off"
                      /\ zn.targetTemp = z.targetTemp
                /\ zn.currentTemp = z.currentTemp
                /\ zn.schedule = z.schedule
                /\ zones'[Other(e)] = zones[Other(e)]
          /\ (\E s \in Side : (zones[s].mode = "off") # (zones'[s].mode = "off")) =>
                TogglePower]_vars

\* C11 witness: the left zone was switched off and still holds its target of
\* 68 F; the right zone, which had no target, was switched on and heats to its
\* current temperature.
C11_Witness ==
    /\ zones["left"].mode = "off"
    /\ zones["left"].targetTemp = {3400}
    /\ zones["right"].mode = "heat"
    /\ zones["right"].targetTemp = {3500}
    /\ presses = 0

\* C12: the temperature buttons are monotone.  A minus click never raises the
\* editing zone's target and a plus click never lowers it, both as shown in the
\* controls in the active unit and as stored in Fahrenheit; changeTemp never
\* changes currentTemp or the schedule and never turns on a zone that is off.
C12_ButtonsMonotone ==
    [][\A sign \in {-1, 1} :
          ChangeTemp(sign, {"left"}, MaxRightPresses) =>
              LET e == editingSideOf
                  z == zones[e]
                  zn == zones'[e]
                  shown == controlsTarget
                  stored == OrElse(z.targetTemp, fromUnit(unit, tempCfg(unit).mid))
              IN /\ sign * (controlsTarget' - shown) >= 0
                 /\ \A t \in zn.targetTemp : sign * (t - stored) >= 0
                 /\ zn.currentTemp = z.currentTemp
                 /\ zn.schedule = z.schedule
                 /\ z.mode = "off" => zn.mode = "off"]_vars

=============================================================================
